---- MODULE Spec2Model ----
(***************************************************************************)
(* create-tanstack-boilerplate: the scaffolder's run (src/index.js).       *)
(*                                                                         *)
(* One run of init(): the question sequence, the existence check of the    *)
(* target directory, and the sequence of filesystem operations that emit   *)
(* the manifest, the base scaffold, the feature files, the config files,   *)
(* the README and .gitignore.  JavaScript objects are modelled as ordered  *)
(* sequences of <<key, value>> pairs (insertion order is what              *)
(* JSON.stringify serializes), arrays as sequences, template strings as    *)
(* sequences of lines.                                                     *)
(***************************************************************************)
EXTENDS Naturals, Sequences, FiniteSets, TLC

VARIABLES
    caller,     \* who answers the questions: a person at the prompt, or injected answers
    existing,   \* the directories that exist in the working directory before the run
    pc,         \* position of init()
    result,     \* the answers object filled by prompts(), a record growing per question
    fs,         \* the filesystem operations performed so far, in order
    exitCode,   \* process exit status once pc = "exited"
    thrown      \* what ended the run: "none", "cancelled", "exists", or the error thrown

vars == <<caller, existing, pc, result, fs, exitCode, thrown>>

---------------------------------------------------------------------------
(* Bounds of the model *)

\* at most this many features are selected in one run
MaxFeatures == 2
\* at most this many locales are selected in one run
MaxLocales == 2

ProjectNames == {"demo", "my-app"}

---------------------------------------------------------------------------
(* JavaScript values *)

Includes(arr, x) == \E i \in DOMAIN arr : arr[i] = x

ObjHas(obj, k) == \E i \in DOMAIN obj : obj[i][1] = k

ObjGet(obj, k) == obj[CHOOSE i \in DOMAIN obj : obj[i][1] = k][2]

\* obj[k] = v : an existing key keeps its position, a new key is appended
ObjSet(obj, k, v) ==
    IF ObjHas(obj, k)
    THEN LET at == CHOOSE i \in DOMAIN obj : obj[i][1] = k
         IN  SubSeq(obj, 1, at - 1) \o << <<k, v>> >> \o SubSeq(obj, at + 1, Len(obj))
    ELSE Append(obj, <<k, v>>)

ObjKeys(obj) == [i \in DOMAIN obj |-> obj[i][1]]

KeySet(obj) == {obj[i][1] : i \in DOMAIN obj}

EntrySet(obj) == {obj[i] : i \in DOMAIN obj}

\* keys.forEach((p) => { obj[p] = v })
RECURSIVE SetEach(_, _, _)
SetEach(obj, keys, v) ==
    IF keys = <<>> THEN obj
    ELSE SetEach(ObjSet(obj, Head(keys), v), Tail(keys), v)

\* JSON.stringify(value, null, 2): keys are serialized in insertion order
JSONstringify(value) == [format |-> "json", indent |-> 2, value |-> value]

pathJoin(a, b) == a \o "/" \o b

Mkdir(p) == [op |-> "mkdir", path |-> p, data |-> <<>>]

WriteFile(p, d) == [op |-> "write", path |-> p, data |-> d]

---------------------------------------------------------------------------
(* The feature catalog *)

FeatureKeys ==
    <<"i18n", "ui", "state", "auth", "animation", "testing", "quality", "deploy">>

CatalogKeys == {FeatureKeys[i] : i \in DOMAIN FeatureKeys}

FEATURES(key) ==
    CASE key = "i18n" ->
           [name |-> "Internationalization (i18n)",
            packages |-> <<"@inlang/cli", "@inlang/paraglide-js">>,
            devPackages |-> <<>>]
      [] key = "ui" ->
           [name |-> "UI Components",
            packages |-> <<"@radix-ui/react-accordion", "@radix-ui/react-avatar",
                           "@radix-ui/react-checkbox", "@radix-ui/react-dialog",
                           "@radix-ui/react-dropdown-menu", "@radix-ui/react-label",
                           "@radix-ui/react-popover", "@radix-ui/react-slot",
                           "@radix-ui/react-tooltip", "class-variance-authority",
                           "clsx", "tailwind-merge", "lucide-react">>,
            devPackages |-> <<"@tailwindcss/vite", "tailwindcss", "autoprefixer">>]
      [] key = "state" ->
           [name |-> "State Management", packages |-> <<>>, devPackages |-> <<>>]
      [] key = "auth" ->
           [name |-> "Authentication",
            packages |-> <<"cookie-es">>,
            devPackages |-> <<"@types/google.accounts">>]
      [] key = "animation" ->
           [name |-> "Animations", packages |-> <<"framer-motion">>, devPackages |-> <<>>]
      [] key = "testing" ->
           [name |-> "Testing Setup",
            packages |-> <<>>,
            devPackages |-> <<"@testing-library/jest-dom", "@testing-library/react",
                              "@testing-library/user-event", "@vitest/ui",
                              "vitest", "jsdom">>]
      [] key = "quality" ->
           [name |-> "Code Quality",
            packages |-> <<>>,
            devPackages |-> <<"@biomejs/biome", "husky", "lint-staged">>]
      [] key = "deploy" ->
           [name |-> "Cloudflare Deployment",
            packages |-> <<"@cloudflare/vite-plugin">>,
            devPackages |-> <<"wrangler">>]

\* FEATURES[key] is undefined for a key outside the catalog
FeatureDefined(key) == key \in CatalogKeys

---------------------------------------------------------------------------
(* generatePackageJson *)

BasePackage(name) ==
    << <<"name", name>>,
       <<"private", TRUE>>,
       <<"sideEffects", FALSE>>,
       <<"type", "module">>,
       <<"scripts", << <<"dev", "vite dev --port 3000">>,
                       <<"build", "vite build">>,
                       <<"start", "node .output/server/index.mjs">> >> >>,
       <<"dependencies", << <<"@tanstack/react-query", "^5.83.0">>,
                            <<"@tanstack/react-router", "1.121.0">>,
                            <<"@tanstack/react-router-with-query", "1.121.0">>,
                            <<"react", "^19.1.0">>,
                            <<"react-dom", "^19.1.0">>,
                            <<"vite", "^6.3.5">> >> >>,
       <<"devDependencies", << <<"@tanstack/react-start", "1.121.0">>,
                               <<"@tanstack/router-core", "1.121.0">>,
                               <<"@tanstack/start-client-core", "1.121.0">>,
                               <<"@types/node", "^24.0.0">>,
                               <<"@types/react", "^19.1.7">>,
                               <<"@types/react-dom", "^19.1.6">>,
                               <<"vite-tsconfig-paths", "^5.1.4">>,
                               <<"@vitejs/plugin-react", "^5.0.4">>,
                               <<"typescript", "^5.8.3">> >> >> >>

\* pkg[field][k] = v
SetIn(pkg, field, k, v) == ObjSet(pkg, field, ObjSet(ObjGet(pkg, field), k, v))

\* the body of features.forEach: one feature's packages and devPackages
AddFeature(pkg, feature) ==
    IF FeatureDefined(feature)
    THEN LET withDeps == ObjSet(pkg, "dependencies",
                           SetEach(ObjGet(pkg, "dependencies"),
                                   FEATURES(feature).packages, "latest"))
         IN  ObjSet(withDeps, "devDependencies",
                    SetEach(ObjGet(withDeps, "devDependencies"),
                            FEATURES(feature).devPackages, "latest"))
    ELSE pkg

\* variant of AddFeaturePackages that folds the selected features in catalog
\* declaration order, whatever the order of the array passed in
AddFeaturePackagesInCatalogOrder(pkg, features) ==
    LET RECURSIVE Fold(_, _)
        Fold(p, i) ==
            IF i > Len(FeatureKeys) THEN p
            ELSE Fold(IF Includes(features, FeatureKeys[i])
                      THEN AddFeature(p, FeatureKeys[i]) ELSE p, i + 1)
    IN  Fold(pkg, 1)

\* features.forEach(...): in the order of the array passed in
RECURSIVE AddFeaturePackages(_, _)
AddFeaturePackages(pkg, features) ==
    IF features = <<>> THEN pkg
    ELSE AddFeaturePackages(AddFeature(pkg, Head(features)), Tail(features))

AddStateLibs(pkg, features, stateLibs) ==
    IF Includes(features, "state")
    THEN LET j == IF Includes(stateLibs, "jotai")
                  THEN SetIn(pkg, "dependencies", "jotai", "latest") ELSE pkg
         IN  IF Includes(stateLibs, "zustand")
             THEN SetIn(j, "dependencies", "zustand", "latest") ELSE j
    ELSE pkg

BiomePrefix(packageManager) == IF packageManager = "pnpm" THEN "pnpm " ELSE ""

AddI18nScripts(pkg, features) ==
    IF Includes(features, "i18n")
    THEN SetIn(pkg, "scripts", "machine-translate",
               "inlang machine translate --project project.inlang")
    ELSE pkg

AddTestingScripts(pkg, features) ==
    IF Includes(features, "testing")
    THEN SetIn(SetIn(SetIn(pkg, "scripts", "test", "vitest run"),
                     "scripts", "test:watch", "vitest"),
               "scripts", "test:ui", "vitest --ui")
    ELSE pkg

\* variant of AddQualityScripts that assigns a fresh scripts object instead
\* of adding to the existing one
AddQualityScriptsReplacing(pkg, features, packageManager) ==
    IF Includes(features, "quality")
    THEN ObjSet(pkg, "scripts",
                << <<"lint", BiomePrefix(packageManager) \o "biome check src">>,
                   <<"lint:fix", BiomePrefix(packageManager) \o "biome check --write src">>,
                   <<"prepare", "husky">> >>)
    ELSE pkg

AddQualityScripts(pkg, features, packageManager) ==
    IF Includes(features, "quality")
    THEN LET s1 == SetIn(pkg, "scripts", "lint",
                         BiomePrefix(packageManager) \o "biome check src")
             s2 == SetIn(s1, "scripts", "lint:fix",
                         BiomePrefix(packageManager) \o "biome check --write src")
             s3 == SetIn(s2, "scripts", "prepare", "husky")
         IN  ObjSet(s3, "lint-staged",
                    << <<"*.{js,jsx,ts,tsx}",
                         <<BiomePrefix(packageManager) \o "biome check src">> >> >>)
    ELSE pkg

PnpmOverrides ==
    << <<"@tanstack/react-start-server", "1.121.0">>,
       <<"@tanstack/start-server-core", "1.121.0">>,
       <<"@tanstack/start-plugin-core", "1.121.0">>,
       <<"@tanstack/react-start-plugin", "1.121.0">>,
       <<"@tanstack/router-plugin", "1.121.0">>,
       <<"@tanstack/router-generator", "1.121.0">>,
       <<"@tanstack/server-functions-plugin", "1.121.0">> >>

\* variant of AddPnpmOverrides that pins for every manager but npm
AddPnpmOverridesUnlessNpm(pkg, packageManager) ==
    IF packageManager # "npm"
    THEN ObjSet(pkg, "pnpm", << <<"overrides", PnpmOverrides>> >>)
    ELSE pkg

\* variant of AddPnpmOverrides that puts the pins in a top-level overrides
\* key, the place npm reads them from
AddPnpmOverridesTopLevel(pkg, packageManager) ==
    IF packageManager = "pnpm"
    THEN ObjSet(pkg, "overrides", PnpmOverrides)
    ELSE pkg

AddPnpmOverrides(pkg, packageManager) ==
    IF packageManager = "pnpm"
    THEN ObjSet(pkg, "pnpm", << <<"overrides", PnpmOverrides>> >>)
    ELSE pkg

generatePackageJson(name, features, packageManager, stateLibs) ==
    LET p1 == AddFeaturePackages(BasePackage(name), features)
        p2 == AddStateLibs(p1, features, stateLibs)
        p3 == AddI18nScripts(p2, features)
        p4 == AddTestingScripts(p3, features)
        p5 == AddQualityScripts(p4, features, packageManager)
    IN  AddPnpmOverrides(p5, packageManager)

---------------------------------------------------------------------------
(* Template code generators.  A template string is the sequence of its     *)
(* lines; a template without interpolation is abbreviated to its lines     *)
(* that identify it.                                                       *)

getClientCode ==
    <<"import { hydrateRoot } from 'react-dom/client'",
      "import { StartClient } from '@tanstack/react-start'",
      "hydrateRoot(document, <StartClient router={router} />)">>

getSSRCode ==
    <<"import { createStartHandler, defaultStreamHandler } from '@tanstack/react-start/server'",
      "export default createStartHandler({ createRouter: () => createRouter() })(defaultStreamHandler)">>

getRouterCode ==
    <<"import { createRouter as createTanStackRouter } from '@tanstack/react-router'",
      "export function createRouter() {">>

getRootRouteCode ==
    <<"import { Outlet, createRootRoute } from '@tanstack/react-router'",
      "export const Route = createRootRoute({ component: RootComponent })">>

getIndexRouteCode ==
    <<"import { createFileRoute } from '@tanstack/react-router'",
      "export const Route = createFileRoute('/')({ component: Home })">>

getGlobalStyles ==
    <<"@tailwind base;", "@tailwind components;", "@tailwind utilities;">>

getGitignore ==
    <<"# Dependencies", "node_modules", "dist", ".output", ".env", "routeTree.gen.ts">>

\* ${features.includes('deploy') ? text : ''}
IfDeploy(features, text) == IF Includes(features, "deploy") THEN text ELSE ""

getViteConfig(features) ==
    <<"import { defineConfig } from 'vite'",
      "import { tanstackStart } from '@tanstack/react-start/plugin/vite'",
      "import tsconfigPaths from 'vite-tsconfig-paths'",
      IfDeploy(features, "import cloudflare from '@cloudflare/vite-plugin'"),
      "",
      "export default defineConfig({",
      "  plugins: [",
      "    tsconfigPaths({ projects: ['./tsconfig.json'] }),",
      "    tanstackStart(),",
      "    " \o IfDeploy(features, "cloudflare(),"),
      "  ],",
      "  " \o IfDeploy(features, "build: { rollupOptions: { onwarn, onLog } },"),
      "});">>

---------------------------------------------------------------------------
(* The file-emitting steps.  Each yields the filesystem operations it      *)
(* performs, in order, with paths joined to the project root.              *)

\* variant of createBaseStructure that creates the directory skeleton and
\* leaves the files out
createBaseStructureDirsOnly(root) ==
    <<Mkdir(pathJoin(root, "src")),
      Mkdir(pathJoin(root, "src/routes")),
      Mkdir(pathJoin(root, "src/components")),
      Mkdir(pathJoin(root, "src/utils")),
      Mkdir(pathJoin(root, "src/styles")),
      Mkdir(pathJoin(root, "public"))>>

createBaseStructure(root) ==
    <<Mkdir(pathJoin(root, "src")),
      Mkdir(pathJoin(root, "src/routes")),
      Mkdir(pathJoin(root, "src/components")),
      Mkdir(pathJoin(root, "src/utils")),
      Mkdir(pathJoin(root, "src/styles")),
      Mkdir(pathJoin(root, "public")),
      WriteFile(pathJoin(root, "src/client.tsx"), getClientCode),
      WriteFile(pathJoin(root, "src/server.ts"), getSSRCode),
      WriteFile(pathJoin(root, "src/router.tsx"), getRouterCode),
      WriteFile(pathJoin(root, "src/routes/__root.tsx"), getRootRouteCode),
      WriteFile(pathJoin(root, "src/routes/index.tsx"), getIndexRouteCode),
      WriteFile(pathJoin(root, "src/styles/global.css"), getGlobalStyles)>>

\* the phrase table of createI18nSetup (the Vietnamese phrases are written
\* here without their diacritics)
WelcomePhrase(lang) ==
    IF lang = "en" THEN "Welcome to your new app!"
    ELSE IF lang = "vi" THEN "Chao mung den voi ung dung moi cua ban!"
    ELSE "Welcome to your new app!"

DescriptionPhrase(lang) ==
    IF lang = "en" THEN "Start building something amazing"
    ELSE IF lang = "vi" THEN "Bat dau xay dung dieu gi do tuyet voi"
    ELSE "Start building something amazing"

MessageFile(messagesDir, lang) == pathJoin(messagesDir, lang \o ".json")

InlangSettings(languages, baseLocale) ==
    << <<"$schema", "https://inlang.com/schema/project-settings">>,
       <<"baseLocale", baseLocale>>,
       <<"locales", languages>>,
       <<"modules",
         <<"https://cdn.jsdelivr.net/npm/@inlang/plugin-message-format@4/dist/index.js",
           "https://cdn.jsdelivr.net/npm/@inlang/plugin-m-function-matcher@2/dist/index.js">> >>,
       <<"plugin.inlang.messageFormat",
         << <<"pathPattern", "./messages/{locale}.json">> >> >> >>

\* variant of WriteMessages that leaves the description phrase out
WriteMessagesWelcomeOnly(messagesDir, lang) ==
    WriteFile(MessageFile(messagesDir, lang),
              JSONstringify(<< <<"welcome", WelcomePhrase(lang)>> >>))

\* the body of languages.forEach: one locale's message file
WriteMessages(messagesDir, lang) ==
    WriteFile(MessageFile(messagesDir, lang),
              JSONstringify(<< <<"welcome", WelcomePhrase(lang)>>,
                               <<"description", DescriptionPhrase(lang)>> >>))

createI18nSetup(root, languages, baseLocale) ==
    <<Mkdir(pathJoin(root, "project.inlang")),
      WriteFile(pathJoin(pathJoin(root, "project.inlang"), "settings.json"),
                JSONstringify(InlangSettings(languages, baseLocale))),
      Mkdir(pathJoin(root, "messages"))>>
    \o [i \in DOMAIN languages |->
          WriteMessages(pathJoin(root, "messages"), languages[i])]

ComponentsJson ==
    << <<"$schema", "https://ui.shadcn.com/schema.json">>,
       <<"style", "default">>,
       <<"rsc", FALSE>>,
       <<"tsx", TRUE>>,
       <<"tailwind", << <<"config", "tailwind.config.mjs">>,
                        <<"css", "src/styles/global.css">>,
                        <<"baseColor", "slate">>,
                        <<"cssVariables", TRUE>> >> >>,
       <<"aliases", << <<"components", "@/components">>,
                       <<"utils", "@/utils">> >> >> >>

\* variant of createUISetup that also rewrites the global stylesheet, which
\* the base scaffold has written
createUISetupWithStyles(root) ==
    <<WriteFile(pathJoin(root, "components.json"), JSONstringify(ComponentsJson)),
      Mkdir(pathJoin(root, "src/lib")),
      WriteFile(pathJoin(root, "src/lib/utils.ts"),
                <<"import { type ClassValue, clsx } from 'clsx'",
                  "import { twMerge } from 'tailwind-merge'",
                  "export function cn(...inputs: ClassValue[]) {">>),
      WriteFile(pathJoin(root, "src/styles/global.css"), getGlobalStyles)>>

createUISetup(root) ==
    <<WriteFile(pathJoin(root, "components.json"), JSONstringify(ComponentsJson)),
      Mkdir(pathJoin(root, "src/lib")),
      WriteFile(pathJoin(root, "src/lib/utils.ts"),
                <<"import { type ClassValue, clsx } from 'clsx'",
                  "import { twMerge } from 'tailwind-merge'",
                  "export function cn(...inputs: ClassValue[]) {">>)>>

JotaiStore ==
    WriteFile("src/store/jotaiStore.ts",
              <<"import { atom } from 'jotai'", "export const countAtom = atom(0)">>)

ZustandStore ==
    WriteFile("src/store/zustandStore.ts",
              <<"import { create } from 'zustand'",
                "export const useCounterStore = create<CounterState>((set) => ({">>)

\* a store file write with its path joined to the project root
InRoot(root, w) == [w EXCEPT !.path = pathJoin(root, w.path)]

\* variant of createStateSetup that always writes the jotai store
createStateSetupAlwaysJotai(root, stateLibs) ==
    <<Mkdir(pathJoin(root, "src/store")), InRoot(root, JotaiStore)>>
    \o (IF Includes(stateLibs, "zustand") THEN <<InRoot(root, ZustandStore)>> ELSE <<>>)

createStateSetup(root, stateLibs) ==
    <<Mkdir(pathJoin(root, "src/store"))>>
    \o (IF Includes(stateLibs, "jotai") THEN <<InRoot(root, JotaiStore)>> ELSE <<>>)
    \o (IF Includes(stateLibs, "zustand") THEN <<InRoot(root, ZustandStore)>> ELSE <<>>)

createAuthSetup(root) ==
    <<Mkdir(pathJoin(root, "src/services")),
      WriteFile(pathJoin(root, "src/services/auth.ts"),
                <<"// Google OAuth setup", "export const initGoogleAuth = () => {">>)>>

createTestingSetup(root) ==
    <<WriteFile(pathJoin(root, "vitest.config.ts"),
                <<"import { defineConfig } from 'vitest/config'",
                  "    environment: 'jsdom',",
                  "    setupFiles: './tests/setup.ts',">>),
      Mkdir(pathJoin(root, "tests")),
      WriteFile(pathJoin(root, "tests/setup.ts"),
                <<"import '@testing-library/jest-dom'">>)>>

BiomeJson ==
    << <<"$schema", "https://biomejs.dev/schemas/1.9.4/schema.json">>,
       <<"vcs", << <<"enabled", TRUE>>, <<"clientKind", "git">>,
                   <<"useIgnoreFile", TRUE>> >> >>,
       <<"files", << <<"ignoreUnknown", FALSE>>, <<"ignore", <<>> >> >> >>,
       <<"formatter", << <<"enabled", TRUE>>, <<"indentStyle", "space">> >> >>,
       <<"organizeImports", << <<"enabled", TRUE>> >> >>,
       <<"linter", << <<"enabled", TRUE>>,
                      <<"rules", << <<"recommended", TRUE>> >> >> >> >> >>

createQualitySetup(root) ==
    <<WriteFile(pathJoin(root, "biome.json"), JSONstringify(BiomeJson)),
      WriteFile(pathJoin(root, ".editorconfig"),
                <<"root = true", "[*]", "indent_style = space", "indent_size = 2">>)>>

TsConfig(features) ==
    << <<"include", <<"**/*.ts", "**/*.tsx">> >>,
       <<"compilerOptions",
         << <<"strict", TRUE>>,
            <<"esModuleInterop", TRUE>>,
            <<"jsx", "react-jsx">>,
            <<"module", "ESNext">>,
            <<"moduleResolution", "Bundler">>,
            <<"lib", <<"DOM", "DOM.Iterable", "ES2023">> >>,
            <<"isolatedModules", TRUE>>,
            <<"resolveJsonModule", TRUE>>,
            <<"skipLibCheck", TRUE>>,
            <<"target", "ES2022">>,
            <<"allowJs", TRUE>>,
            <<"forceConsistentCasingInFileNames", TRUE>>,
            <<"baseUrl", ".">>,
            <<"paths", << <<"@/*", <<"./src/*">> >> >> >>,
            <<"types", IF Includes(features, "testing")
                       THEN <<"vitest/globals", "@testing-library/jest-dom">>
                       ELSE <<>> >>,
            <<"noEmit", TRUE>> >> >> >>

\* the object createConfigFiles means to write to wrangler.json
WranglerJson(name) ==
    << <<"name", name>>,
       <<"pages_build_output_dir", "dist/client">>,
       <<"compatibility_date", "2024-01-01">>,
       <<"compatibility_flags", <<"nodejs_compat">> >> >>

\* createConfigFiles: the operations performed and the error thrown, if any.
\* With deploy selected the argument of the wrangler.json write reads the
\* identifier projectName, which is bound nowhere in this function's scope
\* (it is a local of init, not a parameter): a ReferenceError is thrown
\* before writeFileSync is called, after the writes above it.
createConfigFiles(root, features) ==
    LET always ==
            <<WriteFile(pathJoin(root, "tsconfig.json"), JSONstringify(TsConfig(features))),
              WriteFile(pathJoin(root, "vite.config.ts"), getViteConfig(features))>>
            \o (IF Includes(features, "ui")
                THEN <<WriteFile(pathJoin(root, "tailwind.config.mjs"),
                                 <<"/** @type {import('tailwindcss').Config} */",
                                   "  content: ['./src/**/*.{js,jsx,ts,tsx}'],">>)>>
                ELSE <<>>)
            \o <<WriteFile(pathJoin(root, ".env.example"),
                           <<"VITE_APP_TITLE=\"My TanStack App\"">>)>>
    IN  IF Includes(features, "deploy")
        THEN [ops |-> always, throws |-> "ReferenceError"]
        ELSE [ops |-> always, throws |-> "none"]

\* ${packageManager} ${packageManager === "npm" ? "run " : ""}
RunPrefix(packageManager) ==
    packageManager \o " " \o (IF packageManager = "npm" THEN "run " ELSE "")

\* the README template (the check-mark glyph and the backquotes are left out)
ReadmeText(projectName, features, packageManager) ==
    <<"# " \o projectName,
      "A modern web application built with TanStack Start.",
      "## Features">>
    \o [i \in DOMAIN features |-> "- " \o FEATURES(features[i]).name]
    \o <<"## Getting Started",
         packageManager \o " install",
         RunPrefix(packageManager) \o "dev",
         "## Project Structure",
         projectName \o "/",
         "## Available Scripts",
         "- " \o RunPrefix(packageManager) \o "dev - Start development server",
         "- " \o RunPrefix(packageManager) \o "build - Build for production",
         "- " \o RunPrefix(packageManager) \o "start - Start production server",
         IF Includes(features, "testing")
         THEN "- " \o RunPrefix(packageManager) \o "test - Run tests" ELSE "",
         IF Includes(features, "quality")
         THEN "- " \o RunPrefix(packageManager) \o "lint - Lint code" ELSE "",
         "## Learn More",
         IF Includes(features, "ui") THEN "- [Tailwind CSS](https://tailwindcss.com)" ELSE "",
         IF Includes(features, "i18n") THEN "- [Inlang](https://inlang.com)" ELSE "",
         "## License",
         "MIT">>

\* createReadme: FEATURES[f].name throws a TypeError when FEATURES[f] is
\* undefined, while the template is evaluated and before the file is written
createReadme(root, projectName, features, packageManager) ==
    IF \A i \in DOMAIN features : FeatureDefined(features[i])
    THEN [ops |-> <<WriteFile(pathJoin(root, "README.md"),
                              ReadmeText(projectName, features, packageManager))>>,
          throws |-> "none"]
    ELSE [ops |-> <<>>, throws |-> "TypeError"]

---------------------------------------------------------------------------
(* The answers prompts() can return *)

LocaleChoices == <<"en", "vi", "ja", "ko", "zh">>

StateLibChoices == <<"jotai", "zustand">>

PackageManagers == {"pnpm", "npm", "yarn"}

Range(seq) == {seq[i] : i \in DOMAIN seq}

RECURSIVE PickFrom(_, _, _)
PickFrom(choices, picked, i) ==
    IF i > Len(choices) THEN <<>>
    ELSE (IF i \in picked THEN <<choices[i]>> ELSE <<>>) \o PickFrom(choices, picked, i + 1)

\* a multiselect returns the values of the selected choices, in choice order
MultiSelect(choices, max) ==
    {PickFrom(choices, picked, 1) :
        picked \in {T \in SUBSET DOMAIN choices : Cardinality(T) <= max}}

\* injected answers are returned as given: any array
AnyArray(values, max) == UNION {[1..n -> values] : n \in 0..max}

FeatureAnswers(who) ==
    IF who = "interactive"
    THEN MultiSelect(FeatureKeys, MaxFeatures)
    ELSE AnyArray(CatalogKeys \cup {"not-in-catalog"}, MaxFeatures)

LanguageAnswers(who) ==
    IF who = "interactive"
    THEN MultiSelect(LocaleChoices, MaxLocales)
    ELSE AnyArray(Range(LocaleChoices), MaxLocales)

\* the choices of the base-locale question: values.languages || ["en"]
\* (an empty array is truthy, so no choice is offered for it)
BaseLocaleChoices(values) ==
    IF "languages" \in DOMAIN values THEN values.languages ELSE <<"en">>

PromptPcs ==
    {"projectName", "packageManager", "features", "stateLibs", "languages",
     "baseLocale", "initGit"}

\* variant of NextQuestion whose state-library question has a constant type:
\* it is asked whatever the selected features are
NextQuestionAlwaysStateLibs(name, features) ==
    CASE name = "projectName" -> "packageManager"
      [] name = "packageManager" -> "features"
      [] name = "features" -> "stateLibs"
      [] name = "stateLibs" ->
           IF Includes(features, "i18n") THEN "languages" ELSE "initGit"
      [] name = "languages" -> "baseLocale"
      [] name = "baseLocale" -> "initGit"
      [] name = "initGit" -> "checkTarget"

\* the question after `name`, by the type functions of the later questions
NextQuestion(name, features) ==
    CASE name = "projectName" -> "packageManager"
      [] name = "packageManager" -> "features"
      [] name = "features" ->
           IF Includes(features, "state") THEN "stateLibs"
           ELSE IF Includes(features, "i18n") THEN "languages" ELSE "initGit"
      [] name = "stateLibs" ->
           IF Includes(features, "i18n") THEN "languages" ELSE "initGit"
      [] name = "languages" -> "baseLocale"
      [] name = "baseLocale" -> "initGit"
      [] name = "initGit" -> "checkTarget"

Answer(values, name, v) == values @@ (name :> v)

\* the destructuring of result, with its defaults
Field(values, name, default) ==
    IF name \in DOMAIN values THEN values[name] ELSE default

projectName == Field(result, "projectName", "")
packageManager == Field(result, "packageManager", "")
features == Field(result, "features", <<>>)
languages == Field(result, "languages", <<"en">>)
baseLocale == Field(result, "baseLocale", "en")
initGit == Field(result, "initGit", FALSE)
stateLibs == Field(result, "stateLibs", <<"jotai">>)

\* path.join(process.cwd(), projectName), relative to the working directory
root == projectName

---------------------------------------------------------------------------
(* The run of init() *)

Exit(code, why) ==
    /\ pc' = "exited"
    /\ exitCode' = code
    /\ thrown' = why

AskProjectName ==
    /\ pc = "projectName"
    /\ \E n \in ProjectNames : result' = Answer(result, "projectName", n)
    /\ pc' = NextQuestion("projectName", <<>>)
    /\ UNCHANGED <<caller, existing, fs, exitCode, thrown>>

AskPackageManager ==
    /\ pc = "packageManager"
    /\ \E m \in PackageManagers : result' = Answer(result, "packageManager", m)
    /\ pc' = NextQuestion("packageManager", <<>>)
    /\ UNCHANGED <<caller, existing, fs, exitCode, thrown>>

AskFeatures ==
    /\ pc = "features"
    /\ \E f \in FeatureAnswers(caller) :
          /\ result' = Answer(result, "features", f)
          /\ pc' = NextQuestion("features", f)
    /\ UNCHANGED <<caller, existing, fs, exitCode, thrown>>

AskStateLibs ==
    /\ pc = "stateLibs"
    /\ \E l \in MultiSelect(StateLibChoices, Len(StateLibChoices)) :
          result' = Answer(result, "stateLibs", l)
    /\ pc' = NextQuestion("stateLibs", features)
    /\ UNCHANGED <<caller, existing, fs, exitCode, thrown>>

AskLanguages ==
    /\ pc = "languages"
    /\ \E l \in LanguageAnswers(caller) : result' = Answer(result, "languages", l)
    /\ pc' = NextQuestion("languages", features)
    /\ UNCHANGED <<caller, existing, fs, exitCode, thrown>>

\* What the select does when it is offered no choice is decided by the prompts
\* library, not by this program: either it yields no value and baseLocale
\* stays undefined, or it throws, and the catch around prompts() logs and
\* calls process.exit(1) as for a cancellation.  Both outcomes are possible
\* here.  An injected answer is returned as given.
AskBaseLocale ==
    /\ pc = "baseLocale"
    /\ IF caller = "interactive"
       THEN IF BaseLocaleChoices(result) = <<>>
            THEN \/ /\ result' = result
                    /\ pc' = NextQuestion("baseLocale", features)
                    /\ UNCHANGED <<exitCode, thrown>>
                 \/ /\ Exit(1, "cancelled")
                    /\ UNCHANGED result
            ELSE /\ \E l \in Range(BaseLocaleChoices(result)) :
                       result' = Answer(result, "baseLocale", l)
                 /\ pc' = NextQuestion("baseLocale", features)
                 /\ UNCHANGED <<exitCode, thrown>>
       ELSE /\ \E l \in Range(LocaleChoices) : result' = Answer(result, "baseLocale", l)
            /\ pc' = NextQuestion("baseLocale", features)
            /\ UNCHANGED <<exitCode, thrown>>
    /\ UNCHANGED <<caller, existing, fs>>

AskInitGit ==
    /\ pc = "initGit"
    /\ \E g \in BOOLEAN : result' = Answer(result, "initGit", g)
    /\ pc' = NextQuestion("initGit", features)
    /\ UNCHANGED <<caller, existing, fs, exitCode, thrown>>

\* variant of Cancel whose handler does not end the process: the run goes on
\* with the answers given so far
CancelContinues ==
    /\ pc \in PromptPcs
    /\ pc' = "checkTarget"
    /\ thrown' = "cancelled"
    /\ UNCHANGED <<caller, existing, result, fs, exitCode>>

\* onCancel throws, the catch around prompts() logs and calls process.exit(1)
Cancel ==
    /\ pc \in PromptPcs
    /\ Exit(1, "cancelled")
    /\ UNCHANGED <<caller, existing, result, fs>>

\* variant of CheckTarget that reports the existing directory and goes on
CheckTargetNoExit ==
    /\ pc = "checkTarget"
    /\ pc' = "mkdirRoot"
    /\ thrown' = IF root \in existing THEN "exists" ELSE thrown
    /\ UNCHANGED <<caller, existing, result, fs, exitCode>>

\* if (fs.existsSync(root)) process.exit(1)
CheckTarget ==
    /\ pc = "checkTarget"
    /\ IF root \in existing
       THEN Exit(1, "exists")
       ELSE pc' = "mkdirRoot" /\ UNCHANGED <<exitCode, thrown>>
    /\ UNCHANGED <<caller, existing, result, fs>>

MkdirRoot ==
    /\ pc = "mkdirRoot"
    /\ fs' = Append(fs, Mkdir(root))
    /\ pc' = "packageJson"
    /\ UNCHANGED <<caller, existing, result, exitCode, thrown>>

WritePackageJson ==
    /\ pc = "packageJson"
    /\ fs' = Append(fs, WriteFile(pathJoin(root, "package.json"),
                      JSONstringify(generatePackageJson(projectName, features,
                                                        packageManager, stateLibs))))
    /\ pc' = "base"
    /\ UNCHANGED <<caller, existing, result, exitCode, thrown>>

CreateBaseStructure ==
    /\ pc = "base"
    /\ fs' = fs \o createBaseStructure(root)
    /\ pc' = "i18n"
    /\ UNCHANGED <<caller, existing, result, exitCode, thrown>>

\* variant of FeatureStep that runs the setup whether or not the feature was
\* selected
FeatureStepUnconditional(key, ops, next) ==
    /\ pc = key
    /\ fs' = fs \o ops
    /\ pc' = next
    /\ UNCHANGED <<caller, existing, result, exitCode, thrown>>

\* if (features.includes(key)) create...Setup(...)
FeatureStep(key, ops, next) ==
    /\ pc = key
    /\ fs' = IF Includes(features, key) THEN fs \o ops ELSE fs
    /\ pc' = next
    /\ UNCHANGED <<caller, existing, result, exitCode, thrown>>

CreateI18nSetup == FeatureStep("i18n", createI18nSetup(root, languages, baseLocale), "ui")

CreateUISetup == FeatureStep("ui", createUISetup(root), "state")

CreateStateSetup == FeatureStep("state", createStateSetup(root, stateLibs), "auth")

CreateAuthSetup == FeatureStep("auth", createAuthSetup(root), "testing")

CreateTestingSetup == FeatureStep("testing", createTestingSetup(root), "quality")

CreateQualitySetup == FeatureStep("quality", createQualitySetup(root), "config")

\* a step that may throw: init() rejects and the catch handler exits with 1
ThrowingStep(at, r, next) ==
    /\ pc = at
    /\ fs' = fs \o r.ops
    /\ IF r.throws = "none"
       THEN pc' = next /\ UNCHANGED <<exitCode, thrown>>
       ELSE Exit(1, r.throws)
    /\ UNCHANGED <<caller, existing, result>>

CreateConfigFiles == ThrowingStep("config", createConfigFiles(root, features), "readme")

CreateReadme ==
    ThrowingStep("readme", createReadme(root, projectName, features, packageManager), "git")

\* if (initGit) write .gitignore; then the success message, and init() returns
InitGit ==
    /\ pc = "git"
    /\ fs' = IF initGit THEN Append(fs, WriteFile(pathJoin(root, ".gitignore"), getGitignore))
             ELSE fs
    /\ Exit(0, "none")
    /\ UNCHANGED <<caller, existing, result>>

\* the filesystem calls the step at the current place of init() makes
CurrentOps ==
    CASE pc = "mkdirRoot" -> <<Mkdir(root)>>
      [] pc = "packageJson" ->
           <<WriteFile(pathJoin(root, "package.json"),
                       JSONstringify(generatePackageJson(projectName, features,
                                                         packageManager, stateLibs)))>>
      [] pc = "base" -> createBaseStructure(root)
      [] pc = "i18n" /\ Includes(features, "i18n") ->
           createI18nSetup(root, languages, baseLocale)
      [] pc = "ui" /\ Includes(features, "ui") -> createUISetup(root)
      [] pc = "state" /\ Includes(features, "state") -> createStateSetup(root, stateLibs)
      [] pc = "auth" /\ Includes(features, "auth") -> createAuthSetup(root)
      [] pc = "testing" /\ Includes(features, "testing") -> createTestingSetup(root)
      [] pc = "quality" /\ Includes(features, "quality") -> createQualitySetup(root)
      [] pc = "config" -> createConfigFiles(root, features).ops
      [] pc = "readme" ->
           createReadme(root, projectName, features, packageManager).ops
      [] pc = "git" /\ initGit ->
           <<WriteFile(pathJoin(root, ".gitignore"), getGitignore)>>
      [] OTHER -> <<>>

\* variant of StepFails whose handler removes what the run has created before
\* it exits
StepFailsAndCleansUp ==
    /\ CurrentOps # <<>>
    /\ fs' = <<>>
    /\ Exit(1, "EIO")
    /\ UNCHANGED <<caller, existing, result>>

\* a filesystem call of the current step throws (fs.mkdirSync and
\* fs.writeFileSync throw on an I/O error): the calls the step made before it
\* have taken effect, init() rejects and the catch handler exits with 1
StepFails ==
    /\ CurrentOps # <<>>
    /\ \E k \in 0..(Len(CurrentOps) - 1) : fs' = fs \o SubSeq(CurrentOps, 1, k)
    /\ Exit(1, "EIO")
    /\ UNCHANGED <<caller, existing, result>>

\* the working directory holds none of the project directories, or all of them
ExistingChoices == {{}, ProjectNames}

Start ==
    /\ existing \in ExistingChoices
    /\ pc = "projectName"
    /\ result = <<>>
    /\ fs = <<>>
    /\ exitCode = 0
    /\ thrown = "none"

\* the questions are answered by a person at the prompt
Init == caller = "interactive" /\ Start

\* the answers may also be injected by a programmatic caller
InitInject == caller \in {"interactive", "inject"} /\ Start

Next ==
    \/ AskProjectName
    \/ AskPackageManager
    \/ AskFeatures
    \/ AskStateLibs
    \/ AskLanguages
    \/ AskBaseLocale
    \/ AskInitGit
    \/ Cancel
    \/ CheckTarget
    \/ MkdirRoot
    \/ WritePackageJson
    \/ CreateBaseStructure
    \/ CreateI18nSetup
    \/ CreateUISetup
    \/ CreateStateSetup
    \/ CreateAuthSetup
    \/ CreateTestingSetup
    \/ CreateQualitySetup
    \/ CreateConfigFiles
    \/ CreateReadme
    \/ InitGit

Spec == Init /\ [][Next]_vars

SpecInject == InitInject /\ [][Next]_vars

\* the interactive runs on a filesystem whose calls may fail
SpecFaulty == Init /\ [][Next \/ StepFails]_vars

---------------------------------------------------------------------------
(* What a state says about the run *)

WriteIndices(p) == {i \in DOMAIN fs : fs[i].op = "write" /\ fs[i].path = p}

Written(p) == WriteIndices(p) # {}

ContentOf(p) == fs[CHOOSE i \in WriteIndices(p) : TRUE].data

ManifestPath == pathJoin(root, "package.json")

\* the manifest object serialized to package.json
Manifest == ContentOf(ManifestPath).value

\* the run ended at a prompt or at the existence check
EndedBeforeGeneration == pc = "exited" /\ thrown \in {"cancelled", "exists"}

\* the feature-specific steps of init() have all been passed
FeatureStepsDone ==
    \/ pc \in {"config", "readme", "git"}
    \/ pc = "exited" /\ thrown \in {"none", "ReferenceError", "TypeError"}

\* the run is over and it reached the generation steps
GenerationEnded == pc = "exited" /\ thrown \in {"none", "ReferenceError", "TypeError"}

Perms(seq) ==
    {[i \in DOMAIN seq |-> seq[f[i]]] : f \in Permutations(DOMAIN seq)}

InsertAt(seq, pos, x) == SubSeq(seq, 1, pos) \o <<x>> \o SubSeq(seq, pos + 1, Len(seq))

IndexOf(seq, x) == CHOOSE i \in DOMAIN seq : seq[i] = x

ManifestFields == {"scripts", "dependencies", "devDependencies"}

\* generatePackageJson has returned and its manifest has just been written
ManifestJustWritten == pc = "base" /\ Written(ManifestPath)

---------------------------------------------------------------------------
(* The claims *)

\* C2: feature monotonicity.  For the manifest just generated for the
\* selection and every catalog key k not selected, every name in dependencies,
\* devDependencies and scripts is still present in the manifest generated
\* with k added (at any place of the list, with any state libraries when k
\* is state).
FeatureMonotonicity ==
    ManifestJustWritten =>
        LET written == Manifest
            scripts == KeySet(ObjGet(written, "scripts"))
            deps == KeySet(ObjGet(written, "dependencies"))
            devDeps == KeySet(ObjGet(written, "devDependencies"))
        IN  \A k \in CatalogKeys \ Range(features) :
                \A pos \in 0..Len(features) :
                    \A libs \in (IF k = "state"
                                 THEN MultiSelect(StateLibChoices, Len(StateLibChoices))
                                 ELSE {stateLibs}) :
                        LET more == generatePackageJson(projectName,
                                        InsertAt(features, pos, k), packageManager, libs)
                        IN  /\ scripts \subseteq KeySet(ObjGet(more, "scripts"))
                            /\ deps \subseteq KeySet(ObjGet(more, "dependencies"))
                            /\ devDeps \subseteq KeySet(ObjGet(more, "devDependencies"))

\* a manifest with the testing scripts, to which quality or i18n can be added
MonotonicityWitness ==
    /\ ManifestJustWritten
    /\ features = <<"testing">>
    /\ ObjHas(ObjGet(Manifest, "scripts"), "test:ui")
    /\ ~ObjHas(ObjGet(Manifest, "scripts"), "lint")
    /\ ObjHas(ObjGet(generatePackageJson(projectName, <<"testing", "quality">>,
                                         packageManager, stateLibs), "scripts"), "lint")

\* C3: pnpm-only override.  The written manifest holds the pnpm overrides
\* block, seven packages pinned to 1.121.0, exactly when the package manager
\* is pnpm; for npm and yarn there is no such block at all.
PnpmOnlyOverride ==
    Written(ManifestPath) =>
        /\ ObjHas(Manifest, "pnpm") <=> packageManager = "pnpm"
        /\ ~ObjHas(Manifest, "overrides")
        /\ ObjHas(Manifest, "pnpm") =>
              /\ ObjKeys(ObjGet(Manifest, "pnpm")) = <<"overrides">>
              /\ LET pins == ObjGet(ObjGet(Manifest, "pnpm"), "overrides")
                 IN  /\ Cardinality(KeySet(pins)) = 7
                     /\ \A i \in DOMAIN pins : pins[i][2] = "1.121.0"

PnpmOverrideWitness ==
    /\ pc = "exited" /\ exitCode = 0
    /\ packageManager = "pnpm"
    /\ Len(features) = MaxFeatures
    /\ ObjHas(Manifest, "pnpm")

\* C4: locale completeness.  Once the i18n step has run with i18n selected,
\* every selected locale has exactly one write to messages/<l>.json, holding
\* the welcome and the description key, and no other locale has a message file.
LocaleCompleteness ==
    (FeatureStepsDone /\ Includes(features, "i18n")) =>
        \A l \in Range(LocaleChoices) :
            LET file == MessageFile(pathJoin(root, "messages"), l)
            IN  IF Includes(languages, l)
                THEN /\ Cardinality(WriteIndices(file)) = 1
                     /\ KeySet(ContentOf(file).value) = {"welcome", "description"}
                ELSE ~Written(file)

LocaleWitness ==
    /\ FeatureStepsDone
    /\ Includes(features, "i18n")
    /\ languages = <<"en", "vi">>
    /\ Written(MessageFile(pathJoin(root, "messages"), "vi"))
    /\ ObjGet(ContentOf(MessageFile(pathJoin(root, "messages"), "vi")).value, "welcome")
         # WelcomePhrase("en")

\* C5: state exclusivity.  Once the feature steps have run with state
\* selected, each of jotai and zustand has its dependency in the manifest and
\* its store file written exactly when it is among the chosen libraries.
StateExclusivity ==
    (FeatureStepsDone /\ Includes(features, "state")) =>
        /\ ObjHas(ObjGet(Manifest, "dependencies"), "jotai") <=> Includes(stateLibs, "jotai")
        /\ Written(pathJoin(root, "src/store/jotaiStore.ts")) <=> Includes(stateLibs, "jotai")
        /\ ObjHas(ObjGet(Manifest, "dependencies"), "zustand")
              <=> Includes(stateLibs, "zustand")
        /\ Written(pathJoin(root, "src/store/zustandStore.ts"))
              <=> Includes(stateLibs, "zustand")

StateZustandOnlyWitness ==
    /\ FeatureStepsDone
    /\ Includes(features, "state")
    /\ stateLibs = <<"zustand">>
    /\ Written(pathJoin(root, "src/store/zustandStore.ts"))
    /\ ~Written(pathJoin(root, "src/store/jotaiStore.ts"))

UnknownFeatureAbortsBeforeWrites ==
    (\E i \in DOMAIN features : ~FeatureDefined(features[i])) =>
        /\ fs = <<>>
        /\ pc \in PromptPcs \cup {"checkTarget", "exited"}

\* C8: user cancellation.  Every question can be cancelled, and a cancelled
\* run has ended with exit status 1 and no filesystem operation.
CancellationExitsClean ==
    /\ pc \in PromptPcs => ENABLED Cancel
    /\ thrown = "cancelled" => pc = "exited" /\ exitCode = 1 /\ fs = <<>>

\* cancelled at the last question, all others answered
CancelledAtGitWitness ==
    /\ thrown = "cancelled"
    /\ pc = "exited"
    /\ DOMAIN result = PromptPcs \ {"initGit"}

\* C9: target exists.  When the project directory exists, no filesystem
\* operation is ever performed, and once the questions are answered and the
\* check is made the run has ended with exit status 1.
TargetExistsExits ==
    ("projectName" \in DOMAIN result /\ root \in existing) =>
        /\ fs = <<>>
        /\ pc \in PromptPcs \cup {"checkTarget", "exited"}
        /\ pc = "exited" => exitCode = 1 /\ thrown \in {"cancelled", "exists"}

TargetExistsWitness ==
    /\ pc = "exited"
    /\ thrown = "exists"
    /\ root \in existing
    /\ "initGit" \in DOMAIN result

\* C10 as stated: a run that reached generation and ended has written
\* wrangler.json, named after the project, and the cloudflare plugin wiring in
\* vite.config.ts exactly when deploy is selected.
DeployFilesWritten ==
    GenerationEnded =>
        LET vite == ContentOf(pathJoin(root, "vite.config.ts"))
        IN  IF Includes(features, "deploy")
            THEN /\ Written(pathJoin(root, "wrangler.json"))
                 /\ ContentOf(pathJoin(root, "wrangler.json"))
                       = JSONstringify(WranglerJson(projectName))
                 /\ Includes(vite, "import cloudflare from '@cloudflare/vite-plugin'")
                 /\ Includes(vite, "    cloudflare(),")
            ELSE /\ ~Written(pathJoin(root, "wrangler.json"))
                 /\ ~Includes(vite, "import cloudflare from '@cloudflare/vite-plugin'")
                 /\ ~Includes(vite, "    cloudflare(),")

\* what a catalog feature adds to dependencies and devDependencies
FeaturePackageNames(f) ==
    Range(FEATURES(f).packages) \cup Range(FEATURES(f).devPackages)
        \cup (IF f = "state" THEN Range(StateLibChoices) ELSE {})

\* the scripts a catalog feature adds
FeatureScriptNames(f) ==
    CASE f = "i18n" -> {"machine-translate"}
      [] f = "testing" -> {"test", "test:watch", "test:ui"}
      [] f = "quality" -> {"lint", "lint:fix", "prepare"}
      [] OTHER -> {}

\* the directories and files a catalog feature creates, relative to the root
FeaturePaths(f) ==
    CASE f = "i18n" ->
           {"project.inlang", "project.inlang/settings.json", "messages"}
               \cup {MessageFile("messages", l) : l \in Range(LocaleChoices)}
      [] f = "ui" -> {"components.json", "src/lib", "src/lib/utils.ts", "tailwind.config.mjs"}
      [] f = "state" -> {"src/store", "src/store/jotaiStore.ts", "src/store/zustandStore.ts"}
      [] f = "auth" -> {"src/services", "src/services/auth.ts"}
      [] f = "testing" -> {"vitest.config.ts", "tests", "tests/setup.ts"}
      [] f = "quality" -> {"biome.json", ".editorconfig"}
      [] f = "deploy" -> {"wrangler.json"}
      [] OTHER -> {}

\* the paths of the filesystem operations made so far
PathsTouched == {fs[i].path : i \in DOMAIN fs}

\* C11: feature isolation.  In the output of a run that has ended, for every
\* catalog feature that is not selected, none of its directories and files
\* has been created and, in the written manifest, none of its packages, its
\* scripts or its configuration key is present; and when testing is selected
\* and the feature steps have run, devDependencies has vitest and jsdom,
\* scripts has test, test:watch and test:ui, and vitest.config.ts and
\* tests/setup.ts are written.
FeatureIsolation ==
    pc = "exited" =>
        /\ fs # <<>> =>
              \A f \in CatalogKeys \ Range(features) :
                  \A p \in FeaturePaths(f) : pathJoin(root, p) \notin PathsTouched
        /\ Written(ManifestPath) =>
              \A f \in CatalogKeys \ Range(features) :
                  /\ FeaturePackageNames(f) \cap
                        (KeySet(ObjGet(Manifest, "dependencies"))
                           \cup KeySet(ObjGet(Manifest, "devDependencies"))) = {}
                  /\ FeatureScriptNames(f) \cap KeySet(ObjGet(Manifest, "scripts")) = {}
                  /\ f = "quality" => ~ObjHas(Manifest, "lint-staged")
        /\ (FeatureStepsDone /\ Includes(features, "testing")) =>
              /\ {"vitest", "jsdom"} \subseteq KeySet(ObjGet(Manifest, "devDependencies"))
              /\ {"test", "test:watch", "test:ui"}
                    \subseteq KeySet(ObjGet(Manifest, "scripts"))
              /\ Written(pathJoin(root, "vitest.config.ts"))
              /\ Written(pathJoin(root, "tests/setup.ts"))

\* the scenario of the claim: testing alone, with npm, run to its end
TestingOnlyWitness ==
    /\ pc = "exited" /\ exitCode = 0
    /\ features = <<"testing">>
    /\ packageManager = "npm"
    /\ Written(pathJoin(root, "tests/setup.ts"))
    /\ ObjHas(ObjGet(Manifest, "devDependencies"), "jsdom")
    /\ ~Written(pathJoin(root, "src/services/auth.ts"))

BaseManifestKeys ==
    <<"name", "private", "sideEffects", "type", "scripts", "dependencies", "devDependencies">>

\* C12 as stated: the top-level keys of the written manifest are the seven
\* base keys plus, at most, the package-manager-specific block.
ManifestKeysBaseAndOverridesOnly ==
    Written(ManifestPath) =>
        \/ ObjKeys(Manifest) = BaseManifestKeys
        \/ /\ packageManager = "pnpm"
           /\ ObjKeys(Manifest) = BaseManifestKeys \o <<"pnpm">>

\* C12 as the code has it: the top-level keys of the written manifest are the
\* seven base keys, then lint-staged exactly when quality is selected, then
\* pnpm exactly when the package manager is pnpm; there is no other key.
ManifestKeysWithLintStaged ==
    Written(ManifestPath) =>
        ObjKeys(Manifest) =
            BaseManifestKeys
              \o (IF Includes(features, "quality") THEN <<"lint-staged">> ELSE <<>>)
              \o (IF packageManager = "pnpm" THEN <<"pnpm">> ELSE <<>>)

\* a manifest with both conditional keys
ManifestNineKeysWitness ==
    /\ ManifestJustWritten
    /\ Includes(features, "quality")
    /\ packageManager = "pnpm"
    /\ Len(ObjKeys(Manifest)) = 9
    /\ ObjHas(Manifest, "lint-staged")

\* a value occurs more than once in the sequence
HasRepeat(seq) == \E i, j \in DOMAIN seq : i < j /\ seq[i] = seq[j]

SettingsPath == pathJoin(pathJoin(root, "project.inlang"), "settings.json")

\* the settings object serialized to project.inlang/settings.json
Settings == ContentOf(SettingsPath).value

\* C13 as stated: once the i18n step has run for a locale list with a
\* repeated value, the locales list in project.inlang/settings.json holds each
\* locale once and each messages/<l>.json has been written exactly once.
DuplicateLocalesDeduplicated ==
    (FeatureStepsDone /\ Includes(features, "i18n") /\ HasRepeat(languages)) =>
        /\ Written(SettingsPath)
        /\ ~HasRepeat(ObjGet(Settings, "locales"))
        /\ Range(ObjGet(Settings, "locales")) = Range(languages)
        /\ \A l \in Range(languages) :
               Cardinality(WriteIndices(MessageFile(pathJoin(root, "messages"), l))) = 1

\* the questions in the order of the array passed to prompts()
QuestionOrder ==
    <<"projectName", "packageManager", "features", "stateLibs", "languages",
      "baseLocale", "initGit">>

\* whether question q is to be asked for the selected features, as C14 has it
ToBeAsked(q, selected) ==
    CASE q = "stateLibs" -> Includes(selected, "state")
      [] q \in {"languages", "baseLocale"} -> Includes(selected, "i18n")
      [] OTHER -> TRUE

\* the first question after position i that is to be asked; when there is
\* none the questions are over and the target check follows
RECURSIVE FirstAskedAfter(_, _)
FirstAskedAfter(i, selected) ==
    IF i >= Len(QuestionOrder) THEN "checkTarget"
    ELSE IF ToBeAsked(QuestionOrder[i + 1], selected) THEN QuestionOrder[i + 1]
    ELSE FirstAskedAfter(i + 1, selected)

\* C14: prompt sequence.  Every step taken at a question leaves the
\* filesystem untouched and, unless it cancels the run, leads to the first
\* later question of the fixed order project name, package manager, features,
\* state libraries, locales, base locale, git confirm that is to be asked:
\* state libraries only with state selected, locales and base locale only with
\* i18n selected, all others always; after the last one comes the target check.
PromptSequence ==
    [][(pc \in PromptPcs) =>
          (/\ fs = <<>> /\ fs' = <<>>
           /\ pc' # "exited" =>
                 pc' = FirstAskedAfter(IndexOf(QuestionOrder, pc), features'))]_vars

\* all seven questions were asked and answered
AllQuestionsAskedWitness ==
    /\ pc = "checkTarget"
    /\ DOMAIN result = PromptPcs
    /\ Includes(features, "state") /\ Includes(features, "i18n")
    /\ fs = <<>>

\* the directories and files of the base scaffold, relative to the root
BaseScaffoldPaths ==
    {"src", "src/routes", "src/components", "src/utils", "src/styles", "public",
     "src/client.tsx", "src/server.ts", "src/router.tsx", "src/routes/__root.tsx",
     "src/routes/index.tsx", "src/styles/global.css"}

\* the positions in the log of the operations on one of the given paths
\* (relative to the root)
IndicesOf(paths) ==
    LET full == {pathJoin(root, p) : p \in paths}
    IN  {i \in DOMAIN fs : fs[i].path \in full}

\* C15: write ordering.  In the log of a run that has ended, every directory
\* and file of the base scaffold (src/client.tsx, src/server.ts,
\* src/router.tsx, src/routes/__root.tsx, src/routes/index.tsx,
\* src/styles/global.css and the directory skeleton) is created before the
\* first directory or file of any feature.
BaseBeforeFeatures ==
    pc = "exited" =>
        LET feature == IndicesOf(UNION {FeaturePaths(f) : f \in CatalogKeys})
        IN  feature # {} =>
                \A p \in BaseScaffoldPaths :
                    \E j \in IndicesOf({p}) : \A i \in feature : j < i

\* a feature file written after the last file of the base scaffold
FeatureAfterBaseWitness ==
    /\ pc = "exited" /\ exitCode = 0
    /\ \E i, j \in DOMAIN fs :
          /\ i < j
          /\ fs[i].path = pathJoin(root, "src/styles/global.css")
          /\ fs[j].path = pathJoin(root, "components.json")

\* C16: path disjointness.  In the log of a run that has ended no path is the
\* target of two filesystem operations: every directory and file emitted by
\* the manifest step, the base scaffold, a feature setup, the config step, the
\* README step or the git step is created by exactly one of them, once.
PathDisjointness == pc = "exited" => Cardinality(PathsTouched) = Len(fs)

\* a finished run with two features, one of which has a file written by the
\* config step
DisjointPathsWitness ==
    /\ pc = "exited" /\ exitCode = 0
    /\ Len(features) = MaxFeatures
    /\ Includes(features, "ui")
    /\ Cardinality(WriteIndices(pathJoin(root, "tailwind.config.mjs"))) = 1
    /\ Written(pathJoin(root, "README.md"))
    /\ Written(pathJoin(root, ".gitignore"))

IsPrefix(s, t) == Len(s) <= Len(t) /\ SubSeq(t, 1, Len(s)) = s

\* the failures of a step of the generation
StepFailures == {"EIO", "ReferenceError", "TypeError"}

\* C17: no rollback.  A step is taken only while the run has not ended, so
\* none follows a failure; every step keeps all operations made so far in the
\* log, in place; and a step that fails (an I/O error of a filesystem call, or
\* an error thrown by the step's own code) ends the run with exit status 1.
NoRollback ==
    [][/\ pc # "exited"
       /\ IsPrefix(fs, fs')
       /\ thrown' \in StepFailures => pc' = "exited" /\ exitCode' = 1]_vars

\* an I/O error in the middle of the base scaffold: the manifest and a part
\* of the scaffold are there, nothing later is
PartialDirectoryWitness ==
    /\ pc = "exited" /\ exitCode = 1 /\ thrown = "EIO"
    /\ Written(ManifestPath)
    /\ Written(pathJoin(root, "src/client.tsx"))
    /\ ~Written(pathJoin(root, "src/styles/global.css"))
    /\ ~Written(pathJoin(root, "tsconfig.json"))

\* C18 as stated: a run in which no question was cancelled and the target
\* directory did not exist has, once it is over, reached the success state:
\* exit status 0, with package.json, the base scaffold, tsconfig.json,
\* vite.config.ts, .env.example and README.md written.
RunEndsInSuccess ==
    (pc = "exited" /\ thrown \notin {"cancelled", "exists"}) =>
        /\ exitCode = 0
        /\ thrown = "none"
        /\ \A p \in {"package.json", "tsconfig.json", "vite.config.ts", ".env.example",
                      "README.md"} : Written(pathJoin(root, p))
        /\ \A p \in BaseScaffoldPaths : IndicesOf({p}) # {}

\* C19 as stated: when project.inlang/settings.json has been written, its
\* baseLocale is a member of its locales list, and once the i18n step is over
\* messages/<baseLocale>.json has been written.
BaseLocaleAmongLocales ==
    /\ Written(SettingsPath) =>
          Includes(ObjGet(Settings, "locales"), ObjGet(Settings, "baseLocale"))
    /\ (FeatureStepsDone /\ Includes(features, "i18n")) =>
          Written(MessageFile(pathJoin(root, "messages"), ObjGet(Settings, "baseLocale")))

====
